---- MODULE Spec2Model ----
(***************************************************************************)
(* Model of src/results_api/spectrum.rs: Row, RowIter and Identification   *)
(* (iter_psm_rows, iter_goodness_rows, get_score_histogram).               *)
(*                                                                         *)
(* A DataFrame is a sequence of columns, each a record of a name and a     *)
(* sequence of values.  An Option is a record with a field `some`.         *)
(* Floating point values are counted in units of the smallest positive     *)
(* value of a binary floating point format with MantBits significand bits, *)
(* gradual underflow and round-to-nearest-even; the arithmetic of          *)
(* get_score_histogram is rounded operation by operation, as f64 is.       *)
(***************************************************************************)
EXTENDS Integers, Sequences, FiniteSets, TLC

\* ---------------------------------------------------------------- bounds
MaxCols == 3
MaxRows == 2
MaxCalls == 4
IdentCols == 2
IdentRows == 1
MaxLen == 6
MantBits == 4

\* the column names of a table, in column order
ColNames == <<"peptide", "xcorr", "charge">>
CellValues == {1, 2}
IdentValues == {2}
ScoreValues == {-20, 18, 52, 88}
\* the column [1, 2, 3, 4, 5, 6, 7], in sixteenths
ExampleColumn == <<16, 32, 48, 64, 80, 96, 112>>
Slots == {1, 2}

VARIABLES psms, goodnesses, iters, results, ret

vars == <<psms, goodnesses, iters, results, ret>>

\* ---------------------------------------------------------------- Option
None == [some |-> FALSE]
Some(x) == [some |-> TRUE, value |-> x]

\* ---------------------------------------------------------------- tables
SeqsUpTo(S, n) == UNION {[1..k -> S] : k \in 0..n}

\* the DataFrames with at most c columns of at most r values each; column i
\* is named ColNames[i], column lengths are independent
Tables(c, r, V) ==
    UNION {{[i \in 1..k |-> [name |-> ColNames[i], values |-> cells[i]]] :
              cells \in [1..k -> SeqsUpTo(V, r)]} :
           k \in {n \in 0..c : n <= Len(ColNames)}}

\* ------------------------------------------------------------------- Row
Row(col_index, col_values) == [col_index |-> col_index, col_values |-> col_values]

RowLen(row) == Len(row.col_values)

\* Index<&str>: unwrap of the map lookup, then the positional value
RowIndex(row, col_name) == row.col_values[row.col_index[col_name] + 1]

\* --------------------------------------------------------------- RowIter
\* variant: the columns numbered from the last one
ColIndexReversed(dataframe) ==
    [n \in {dataframe[i].name : i \in 1..Len(dataframe)} |->
        Len(dataframe) - (CHOOSE i \in 1..Len(dataframe) : dataframe[i].name = n)]

\* enumerate() numbers the columns from 0; collect() into a HashMap keeps
\* the last index inserted for a name
ColIndex(dataframe) ==
    [n \in {dataframe[i].name : i \in 1..Len(dataframe)} |->
        (CHOOSE i \in 1..Len(dataframe) :
            /\ dataframe[i].name = n
            /\ \A j \in 1..Len(dataframe) : dataframe[j].name = n => j <= i) - 1]

\* a SeriesIter is the number of values already taken from its column
RowIterNew(dataframe) ==
    [col_index |-> ColIndex(dataframe),
     col_iterators |-> [i \in 1..Len(dataframe) |-> 0]]

\* variant: a cursor that starts over once it has reported its end
SeriesIterNextCycle(col, idx) ==
    IF idx < Len(col.values)
    THEN [idx |-> idx + 1, item |-> Some(col.values[idx + 1])]
    ELSE [idx |-> 0, item |-> None]

SeriesIterNext(col, idx) ==
    IF idx < Len(col.values)
    THEN [idx |-> idx + 1, item |-> Some(col.values[idx + 1])]
    ELSE [idx |-> idx, item |-> None]

\* variant: only the first column ends the iteration, a later column that is
\* exhausted is skipped
RECURSIVE NextLoopFirstColumn(_, _, _, _, _)
NextLoopFirstColumn(dataframe, col_index, col_iterators, c, values) ==
    IF c > Len(col_iterators)
    THEN [col_iterators |-> col_iterators,
          item |-> Some(Row(col_index, values))]
    ELSE LET idx == col_iterators[c]
             col == dataframe[c]
         IN IF idx < Len(col.values)
            THEN NextLoopFirstColumn(dataframe, col_index,
                                     [col_iterators EXCEPT ![c] = idx + 1], c + 1,
                                     Append(values, col.values[idx + 1]))
            ELSE IF c = 1
            THEN [col_iterators |-> col_iterators, item |-> None]
            ELSE NextLoopFirstColumn(dataframe, col_index, col_iterators, c + 1,
                                     values)

RECURSIVE NextLoop(_, _, _, _, _)
NextLoop(dataframe, col_index, col_iterators, c, values) ==
    IF c > Len(col_iterators)
    THEN [col_iterators |-> col_iterators,
          item |-> Some(Row(col_index, values))]
    ELSE LET r == SeriesIterNext(dataframe[c], col_iterators[c])
             its == [col_iterators EXCEPT ![c] = r.idx]
         IN IF r.item.some
            THEN NextLoop(dataframe, col_index, its, c + 1,
                          Append(values, r.item.value))
            ELSE [col_iterators |-> its, item |-> None]

RowIterNext(dataframe, it) ==
    LET r == NextLoop(dataframe, it.col_index, it.col_iterators, 1, <<>>)
    IN [it |-> [it EXCEPT !.col_iterators = r.col_iterators], item |-> r.item]

\* ------------------------------------------------- floating point (f64)
RECURSIVE Pow2(_)
Pow2(n) == IF n <= 0 THEN 1 ELSE 2 * Pow2(n - 1)

Abs(x) == IF x < 0 THEN -x ELSE x

\* the exponent of the binade of a / den: the least e >= 0 with
\* a / den < 2^(MantBits + e)
RECURSIVE Exponent(_, _, _)
Exponent(a, den, e) ==
    IF a < Pow2(MantBits + e) * den THEN e ELSE Exponent(a, den, e + 1)

\* num / den (den > 0) rounded to the nearest representable value, ties to
\* the even significand
FRound(num, den) ==
    LET a == Abs(num)
        ulp == Pow2(Exponent(a, den, 0))
        d == den * ulp
        q == a \div d
        r == a - q * d
        m == IF 2 * r > d THEN q + 1
             ELSE IF 2 * r = d THEN q + (q % 2)
             ELSE q
    IN (IF num < 0 THEN -1 ELSE 1) * m * ulp

FAdd(x, y) == FRound(x + y, 1)
FSub(x, y) == FRound(x - y, 1)
\* i and n are the exact values of `i as f64` and `num_bins as f64`
FMul(i, x) == FRound(i * x, 1)
FDiv(x, n) == FRound(x, n)

\* ------------------------------------------------- get_score_histogram
\* (1.0 + log2(len)).round() as usize: the k with k - 1/2 <= 1 + log2(len)
\* < k + 1/2, that is 2^(2k-3) <= len^2 < 2^(2k-1); log2(0) is -inf and the
\* cast of -inf saturates to 0
RECURSIVE Sturges(_, _)
Sturges(len, k) ==
    IF len * len < Pow2(2 * k - 1) THEN k ELSE Sturges(len, k + 1)

NumBins(len) == IF len = 0 THEN 0 ELSE Sturges(len, 1)

SeriesMin(s) == CHOOSE v \in {s[i] : i \in 1..Len(s)} : \A j \in 1..Len(s) : v <= s[j]
SeriesMax(s) == CHOOSE v \in {s[i] : i \in 1..Len(s)} : \A j \in 1..Len(s) : v >= s[j]

Bins(min, bin_width, num_bins) ==
    [i \in 1..(num_bins + 1) |-> FAdd(min, FMul(i - 1, bin_width))]

\* variant: the comparison val < edge
RECURSIVE FindBinStrict(_, _, _)
FindBinStrict(val, bins, i) ==
    IF i > Len(bins) THEN 0
    ELSE IF val < bins[i] THEN i - 1
    ELSE FindBinStrict(val, bins, i + 1)

\* the inner loop: the first edge after the 0th with val <= edge; the result
\* is the (1-based) bucket whose count is incremented, 0 when the loop ends
\* without a break
RECURSIVE FindBin(_, _, _)
FindBin(val, bins, i) ==
    IF i > Len(bins) THEN 0
    ELSE IF val <= bins[i] THEN i - 1
    ELSE FindBin(val, bins, i + 1)

RECURSIVE CountLoop(_, _, _, _)
CountLoop(score, bins, k, histogram) ==
    IF k > Len(score) THEN histogram
    ELSE LET b == FindBin(score[k], bins, 2)
         IN CountLoop(score, bins, k + 1,
                      IF b = 0 THEN histogram
                      ELSE [histogram EXCEPT ![b] = @ + 1])

HasColumn(dataframe, n) == \E i \in 1..Len(dataframe) : dataframe[i].name = n

Column(dataframe, n) ==
    dataframe[CHOOSE i \in 1..Len(dataframe) : dataframe[i].name = n].values

NoResult == [kind |-> "None", bins |-> <<>>, histogram |-> <<>>]
Panic == [kind |-> "Panic", bins |-> <<>>, histogram |-> <<>>]

\* variant: without the early return for an absent table
GetScoreHistogramUnchecked(p) ==
    IF ~p.some \/ ~HasColumn(p.value, "xcorr") THEN Panic
    ELSE LET score == Column(p.value, "xcorr")
             num_bins == NumBins(Len(score))
         IN IF Len(score) = 0 THEN Panic
            ELSE LET min == SeriesMin(score)
                     max == SeriesMax(score)
                     bin_width == FDiv(FSub(max, min), num_bins)
                     bins == Bins(min, bin_width, num_bins)
                 IN [kind |-> "Some", bins |-> bins,
                     histogram |-> CountLoop(score, bins, 1,
                                             [i \in 1..num_bins |-> 0])]

GetScoreHistogram(p) ==
    IF ~p.some THEN NoResult
    ELSE IF ~HasColumn(p.value, "xcorr") THEN Panic
    ELSE LET score == Column(p.value, "xcorr")
             num_bins == NumBins(Len(score))
         IN IF Len(score) = 0 THEN Panic
            ELSE LET min == SeriesMin(score)
                     max == SeriesMax(score)
                     bin_width == FDiv(FSub(max, min), num_bins)
                     bins == Bins(min, bin_width, num_bins)
                 IN [kind |-> "Some", bins |-> bins,
                     histogram |-> CountLoop(score, bins, 1,
                                             [i \in 1..num_bins |-> 0])]

\* --------------------------------------------------------------- actions
Call(op, r) == [op |-> op, kind |-> r.kind, bins |-> r.bins, histogram |-> r.histogram]

NoCall == Call("none", NoResult)

TableOf(src) == IF src = "psms" THEN psms ELSE goodnesses

NewIter(src) ==
    IF TableOf(src).some
    THEN Some([src |-> src, it |-> RowIterNew(TableOf(src).value)])
    ELSE None

IterRows(k, src, op) ==
    /\ iters' = [iters EXCEPT ![k] = NewIter(src)]
    /\ results' = [results EXCEPT ![k] = <<>>]
    /\ ret' = Call(op, [NoResult EXCEPT !.kind = IF NewIter(src).some THEN "Some" ELSE "None"])
    /\ UNCHANGED <<psms, goodnesses>>

IterPsmRows(k) == IterRows(k, "psms", "iter_psm_rows")

IterGoodnessRows(k) == IterRows(k, "goodnesses", "iter_goodness_rows")

\* variant: the column cursors belong to the table, so that all iterators
\* over it advance together
IterNextShared(k) ==
    /\ iters[k].some
    /\ Len(results[k]) < MaxCalls
    /\ LET r == RowIterNext(TableOf(iters[k].value.src).value, iters[k].value.it)
       IN /\ iters' = [j \in Slots |->
                          IF iters[j].some /\ iters[j].value.src = iters[k].value.src
                          THEN Some([iters[j].value EXCEPT !.it = r.it])
                          ELSE iters[j]]
          /\ results' = [results EXCEPT ![k] = Append(@, r.item)]
    /\ UNCHANGED <<psms, goodnesses, ret>>

IterNext(k) ==
    /\ iters[k].some
    /\ Len(results[k]) < MaxCalls
    /\ LET r == RowIterNext(TableOf(iters[k].value.src).value, iters[k].value.it)
       IN /\ iters' = [iters EXCEPT ![k] = Some([iters[k].value EXCEPT !.it = r.it])]
          /\ results' = [results EXCEPT ![k] = Append(@, r.item)]
    /\ UNCHANGED <<psms, goodnesses, ret>>

ScoreHistogram ==
    /\ ret' = Call("get_score_histogram", GetScoreHistogram(psms))
    /\ UNCHANGED <<psms, goodnesses, iters, results>>

\* -------------------------------------------------------- specifications
NoIters ==
    /\ iters = [k \in Slots |-> None]
    /\ results = [k \in Slots |-> <<>>]
    /\ ret = NoCall

\* row iteration over the PSM table of an Identification
InitIter ==
    /\ psms \in {Some(t) : t \in Tables(MaxCols, MaxRows, CellValues)}
    /\ goodnesses = None
    /\ NoIters

NextIter == \E k \in Slots : IterPsmRows(k) \/ IterNext(k)

SpecIter == InitIter /\ [][NextIter]_vars

\* the calls of an Identification whose tables are optional
OptTables == {None} \cup {Some(t) : t \in Tables(IdentCols, IdentRows, IdentValues)}

Init ==
    /\ psms \in OptTables
    /\ goodnesses \in OptTables
    /\ NoIters

Next ==
    \/ \E k \in Slots : IterPsmRows(k)
    \/ \E k \in Slots : IterGoodnessRows(k)
    \/ ScoreHistogram

Spec == Init /\ [][Next]_vars

\* the histogram of a PSM table's xcorr column
ScoreColumns ==
    (SeqsUpTo(ScoreValues, MaxLen) \ {<<>>}) \cup {ExampleColumn}

InitHist ==
    /\ psms \in {Some(<<[name |-> "xcorr", values |-> s]>>) : s \in ScoreColumns}
    /\ goodnesses = None
    /\ NoIters

NextHist == ScoreHistogram

SpecHist == InitHist /\ [][NextHist]_vars

\* ================================================================ claims
IterTable(k) == TableOf(iters[k].value.src).value

Lengths(t) == {Len(t[c].values) : c \in 1..Len(t)}

\* the number of rows of a table; a table without columns has none
Height(t) ==
    IF Len(t) = 0 THEN 0
    ELSE CHOOSE n \in Lengths(t) : \A m \in Lengths(t) : n <= m

SourceRow(t, i) == [c \in 1..Len(t) |-> t[c].values[i]]

LastItem(k) == results[k][Len(results[k])]

\* ---- C1: over a table whose columns all have length N (N = 0 included) a
\* RowIter yields exactly N rows before None, and row i holds at every
\* column's position the i-th value of that column.
C1_EqualLengthRows ==
    \A k \in Slots : iters[k].some =>
        \A N \in 0..MaxRows :
            (\A c \in 1..Len(IterTable(k)) : Len(IterTable(k)[c].values) = N) =>
                \A j \in 1..Len(results[k]) :
                    /\ results[k][j].some <=> j <= N
                    /\ (j <= N /\ results[k][j].some) =>
                           results[k][j].value.col_values = SourceRow(IterTable(k), j)

\* ---- C2: over a table whose columns have unequal lengths a RowIter yields
\* exactly min(column lengths) rows: the call after them, and every later
\* one, returns None although other columns still hold values.
C2_TruncatesToShortest ==
    \A k \in Slots :
        (iters[k].some /\ Cardinality(Lengths(IterTable(k))) > 1) =>
            \A j \in 1..Len(results[k]) :
                results[k][j].some <=> j <= Height(IterTable(k))

\* a None was returned, the shortest column is not the first one and a
\* column is left with values not taken
C2_Witness ==
    \E k \in Slots :
        /\ iters[k].some
        /\ Cardinality(Lengths(IterTable(k))) > 1
        /\ Len(IterTable(k)[1].values) > Height(IterTable(k))
        /\ Len(results[k]) > Height(IterTable(k))
        /\ Height(IterTable(k)) >= 1
        /\ \E c \in 1..Len(IterTable(k)) :
               iters[k].value.it.col_iterators[c] < Len(IterTable(k)[c].values)

\* ---- C7: a yielded row has one value per column, and indexing it by a
\* column's name gives the value at that column's position.
C7_IndexByName ==
    \A k \in Slots : iters[k].some =>
        \A j \in 1..Len(results[k]) : results[k][j].some =>
            /\ RowLen(results[k][j].value) = Len(IterTable(k))
            /\ \A c \in 1..Len(IterTable(k)) :
                   RowIndex(results[k][j].value, IterTable(k)[c].name)
                       = results[k][j].value.col_values[c]

\* a row of at least two columns whose values differ was yielded
C7_Witness ==
    \E k \in Slots :
        /\ iters[k].some
        /\ results[k] # <<>>
        /\ LastItem(k).some
        /\ RowLen(LastItem(k).value) >= 2
        /\ LastItem(k).value.col_values[1] # LastItem(k).value.col_values[2]

\* the items an iterator over t returns to n calls when it is the only one
RECURSIVE Solo(_, _, _, _)
Solo(t, it, n, acc) ==
    IF n = 0 THEN acc
    ELSE Solo(t, RowIterNext(t, it).it, n - 1, Append(acc, RowIterNext(t, it).item))

\* ---- C8: two RowIters over one table do not interfere: each returns, under
\* every interleaving, the items it would return alone, and no call of next
\* changes the table or the name-to-index mapping.
C8_NoInterference ==
    /\ [](\A k \in Slots : iters[k].some =>
              results[k] = Solo(IterTable(k), RowIterNew(IterTable(k)),
                                Len(results[k]), <<>>))
    /\ [][\A k \in Slots : IterNext(k) =>
              /\ psms' = psms
              /\ goodnesses' = goodnesses
              /\ iters'[k].value.it.col_index = iters[k].value.it.col_index]_vars

\* both iterators are over the same table and stand at different rows of it
C8_Witness ==
    /\ iters[1].some /\ iters[2].some
    /\ Height(IterTable(1)) >= 2
    /\ Len(results[1]) = 2
    /\ Len(results[2]) = 1
    /\ results[1][2].some

\* ---- C10: a RowIter is single-pass: after next has returned None every
\* later next returns None, whatever the column lengths; a newly
\* constructed iterator starts again at row 0.
C10_SinglePass ==
    [][\A k \in Slots :
          /\ (IterNext(k) /\ results[k] # <<>> /\ ~LastItem(k).some) =>
                 ~results'[k][Len(results'[k])].some
          /\ (IterPsmRows(k) /\ Len(psms.value) >= 1 /\ Height(psms.value) >= 1) =>
                 /\ results'[k] = <<>>
                 /\ RowIterNext(psms.value, iters'[k].value.it).item
                        = Some(Row(ColIndex(psms.value), SourceRow(psms.value, 1)))]_vars

\* an iterator returned None twice after a row, over columns of unequal
\* lengths with the first column not the shortest
C10_Witness ==
    \E k \in Slots :
        /\ iters[k].some
        /\ Len(results[k]) >= 3
        /\ results[k][1].some
        /\ ~results[k][Len(results[k]) - 1].some
        /\ ~LastItem(k).some
        /\ Len(IterTable(k)[1].values) > Height(IterTable(k))

\* ---- C6: iter_psm_rows and get_score_histogram return None exactly when
\* the PSM table is absent, iter_goodness_rows exactly when the goodness
\* table is absent, and an absent table never makes a call fail.
C6_AbsentTables ==
    /\ ret.op = "iter_psm_rows" => (ret.kind = "None" <=> ~psms.some)
    /\ ret.op = "iter_goodness_rows" => (ret.kind = "None" <=> ~goodnesses.some)
    /\ ret.op = "get_score_histogram" => (ret.kind = "None" <=> ~psms.some)
    /\ ret.op \in {"iter_psm_rows", "iter_goodness_rows"} => ret.kind # "Panic"
    /\ \A k \in Slots : iters[k].some => TableOf(iters[k].value.src).some

\* the histogram of an Identification without PSMs but with goodnesses
C6_Witness ==
    /\ ~psms.some
    /\ goodnesses.some
    /\ ret.op = "get_score_histogram"
    /\ ret.kind = "None"

\* ------------------------------------------------------ histogram claims
Score == Column(psms.value, "xcorr")

HistReturned == ret.op = "get_score_histogram" /\ ret.kind = "Some"

\* round(1 + log2(N)) for N = 1, 2, ...
SturgesTable == <<1, 2, 3, 3, 3, 4, 4, 4, 4, 4, 4, 5>>

RECURSIVE Sum(_)
Sum(s) == IF s = <<>> THEN 0 ELSE Head(s) + Sum(Tail(s))

\* ---- C3: the counts have round(1 + log2(N)) entries and sum to N: every
\* value of the column is counted in exactly one bucket.
C3_CountsSumToN ==
    HistReturned =>
        /\ Len(ret.histogram) = SturgesTable[Len(Score)]
        /\ Sum(ret.histogram) = Len(Score)

\* ---- C4: there are bin_count + 1 edges, they are non-decreasing, the first
\* is the column minimum, the last the column maximum, and
\* edge i = min + i * (max - min) / bin_count.
C4_Edges ==
    HistReturned =>
        LET n == SturgesTable[Len(Score)]
            min == SeriesMin(Score)
            max == SeriesMax(Score)
        IN /\ Len(ret.bins) = n + 1
           /\ \A i \in 1..n : ret.bins[i] <= ret.bins[i + 1]
           /\ ret.bins[1] = min
           /\ ret.bins[n + 1] = max
           /\ \A i \in 0..n : n * ret.bins[i + 1] = n * min + i * (max - min)

\* ---- C5: when all N values of the column are identical, bucket 0 counts N,
\* every other bucket counts 0 and every edge is that value.
C5_Degenerate ==
    (HistReturned /\ \A i \in 1..Len(Score) : Score[i] = Score[1]) =>
        /\ Len(ret.histogram) = SturgesTable[Len(Score)]
        /\ ret.histogram = [j \in 1..Len(ret.histogram) |->
                                IF j = 1 THEN Len(Score) ELSE 0]
        /\ Len(ret.bins) = Len(ret.histogram) + 1
        /\ \A i \in 1..Len(ret.bins) : ret.bins[i] = Score[1]

\* the histogram of at least three identical values (more than one bucket)
C5_Witness ==
    /\ HistReturned
    /\ Len(Score) >= 3
    /\ \A i \in 1..Len(Score) : Score[i] = Score[1]
    /\ Len(ret.histogram) >= 3

\* the least j >= 0 with v <= edge[j + 1], -1 when there is none
LeastBucket(v, bins) ==
    LET js == {j \in 0..(Len(bins) - 2) : v <= bins[j + 2]}
    IN IF js = {} THEN -1 ELSE CHOOSE j \in js : \A i \in js : j <= i

\* ---- C9: every value v is counted in the bucket of the least j with
\* v <= edge[j + 1]; the column maximum is counted in the last bucket unless
\* it equals an earlier edge; [1..7] gives the edges [1, 2.5, 4, 5.5, 7]
\* (here in sixteenths) with 4 in bucket 1 and 7 in bucket 3.
C9_LowerBucket ==
    HistReturned =>
        LET n == Len(ret.histogram)
        IN /\ \A i \in 1..Len(Score) : LeastBucket(Score[i], ret.bins) >= 0
           /\ \A j \in 0..(n - 1) :
                  ret.histogram[j + 1] =
                      Cardinality({i \in 1..Len(Score) :
                                      LeastBucket(Score[i], ret.bins) = j})
           /\ (\A i \in 1..n : ret.bins[i] # SeriesMax(Score)) =>
                  LeastBucket(SeriesMax(Score), ret.bins) = n - 1
           /\ Score = ExampleColumn =>
                  /\ ret.bins = <<16, 40, 64, 88, 112>>
                  /\ ret.histogram = <<2, 2, 1, 2>>
                  /\ LeastBucket(64, ret.bins) = 1
                  /\ LeastBucket(112, ret.bins) = 3

====
